---- MODULE Spec2Model ----
(***************************************************************************)
(* Model of the candle aggregation engine (app/services/candles.py) and of *)
(* the backtest simulation engine (app/services/backtest_engine.py).       *)
(*                                                                         *)
(* Timestamps are whole seconds counted from midnight of day 0; a datetime *)
(* is decomposed into day, hour, minute and second the way datetime does.  *)
(* Prices are integers (tenths of a point in the candle part).             *)
(***************************************************************************)
EXTENDS Integers, Sequences, FiniteSets, TLC

VARIABLES
    timeframe_minutes,  \* CandleBuilder.timeframe_minutes
    builder,            \* the five current_* fields of the CandleBuilder
    lastOp,             \* the method called last: "none", "tick" or "peek"
    ret,                \* Optional[Candle] returned by the last call: {} is None
    ticks,              \* history: every tick passed to update_with_tick
    emitted,            \* history: every candle returned by update_with_tick
    transitions,        \* history: calls whose bucket was later than the in-progress one
    params,             \* BacktestEngine strategy parameters set by __init__
    engine,             \* BacktestEngine runtime state (trades, equity, position)
    pc,                 \* position of BacktestEngine.run: "idle" or "loop"
    df,                 \* the Close column of the bars fetched by the run in progress
    idx,                \* index (and time) of the bar the loop processes next
    result,             \* Optional[BacktestResult] returned by the last finished run
    opened,             \* history: number of _open_position calls since the last reset
    download,           \* what fetch_candles gave the last run: "bars", or "no bars"
                        \* (yf.download gave None or an empty frame, or raised)
    lists_returned,     \* the list objects now bound to trades and equity_curve were
                        \* passed to a BacktestResult
    rerun,              \* history: the run in progress began on an engine that
                        \* held the trades of an earlier run
    feed,               \* MockFeed fields other than candle_builder
    wall,               \* the wall clock at its last reading by datetime.utcnow()
    tick_result,        \* Optional[dict] returned by the last generate_tick
    calls,              \* history: the calls of the on_candle_closed callback
    generated,          \* history: every tick generated since the feed was constructed
    sealed,             \* history: the candles the feed's builder sealed while a
                        \* callback was registered
    table,              \* the rows of the strategy_config table, in id order
    requests            \* the HTTP requests: kind, body, handler position, response

candleVars == <<timeframe_minutes, builder, lastOp, ret, ticks, emitted, transitions>>

btVars ==
    <<params, engine, pc, df, idx, result, opened, download, lists_returned, rerun>>

feedVars == <<feed, wall, tick_result, calls, generated, sealed>>

apiVars == <<table, requests>>

vars == <<candleVars, btVars, feedVars, apiVars>>

----------------------------------------------------------------------------
(* Bounds and input sets                                                   *)

MaxTicks == 4

None == -1

At(day, hour, minute, second) == day * 86400 + hour * 3600 + minute * 60 + second

Timeframes == {15, 45}

Prices == {995, 1000, 1005}

Times ==
    { At(0, 9, 7, 0), At(0, 9, 14, 30), At(0, 9, 15, 0), At(0, 10, 5, 0) }

ExamplePrices == <<1000, 1005, 1003, 1008, 1010, 1009, 1012, 1007>>

ExampleTicks ==
    [i \in 1..Len(ExamplePrices) |->
        [price |-> ExamplePrices[i], ts |-> At(0, 9, 0, 0) + (i - 1) * 30]]

MaxBars == 5

Closes == {1, 2, 3}

\* the Close columns fetch_candles may return; <<>> is the empty frame
BarSeries == UNION {[1..n -> Closes] : n \in 0..MaxBars}

\* HTTP API: the requests in flight together
MaxRequests == 2

Fields ==
    {"rsi_period", "ema_fast", "ema_slow", "trend_ema", "tp_points", "trail_offset",
     "lot_size"}

\* a body without any of the optional fields
NoFields == [f \in Fields |-> {}]

\* bodies of POST /api/backtest: each optional field absent ({}) or given
BacktestBodies ==
    {[NoFields EXCEPT !.rsi_period = a, !.tp_points = b] :
        a \in {{}, {1}}, b \in {{}, {0}, {2}}}

\* bodies of PUT /api/strategy
UpdateBodies ==
    {[NoFields EXCEPT !.rsi_period = {2}], [NoFields EXCEPT !.tp_points = {3}]}

\* the bars the backtest of a POST may fetch
ApiBars == {<<>>, <<1, 2, 1, 2>>}

\* MockFeed: prices and seconds are counted in tenths
MaxGenerated == 4

StartPrices == {-10, 12}

TickRates == {0, 4500}

PriceChanges == {-5, 5}

\* what datetime.utcnow().replace(second=0, microsecond=0) may read
WallClock == {At(0, 9, 7, 0) * 10, At(0, 9, 14, 0) * 10}

\* the arguments of reset: None, 0.0 or a price
ResetPrices == {{}, {0}, {30}}

\* fetch_candles: the frame downloaded, or the empty frame when the download
\* gave None or an empty frame or raised
fetch_candles(d) ==
    IF d.kind = "raises" THEN <<>>
    ELSE IF d.kind = "None" \/ d.bars = <<>> THEN <<>>
    ELSE d.bars

ParamSets ==
    [rsi_period : {1, 2}, trend_ema : {1, 3}, tp_points : {2},
     trail_offset : {1, 2}, lot_size : {2}, initial_equity : {10}]

----------------------------------------------------------------------------
(* datetime                                                                *)

Day(ts) == ts \div 86400

Hour(ts) == (ts % 86400) \div 3600

Minute(ts) == (ts % 3600) \div 60

Second(ts) == ts % 60

\* datetime.replace(minute=m, second=0, microsecond=0)
ReplaceMinuteZeroSecond(ts, m) == At(Day(ts), Hour(ts), m, 0)

\* a replace that keeps the seconds of the timestamp
ReplaceMinuteKeepSecond(ts, m) == At(Day(ts), Hour(ts), m, Second(ts))

Max(a, b) == IF a >= b THEN a ELSE b

Min(a, b) == IF a <= b THEN a ELSE b

----------------------------------------------------------------------------
(* CandleBuilder                                                           *)

Candle(start_time, open, high, low, close) ==
    [start_time |-> start_time, open |-> open, high |-> high,
     low |-> low, close |-> close]

NewBuilder ==
    [current_start_time |-> None, current_open |-> None, current_high |-> None,
     current_low |-> None, current_close |-> None]

_compute_bucket_start_keep_seconds(ts, tf) ==
    ReplaceMinuteKeepSecond(ts, (Minute(ts) \div tf) * tf)

_compute_bucket_start(ts, tf) ==
    ReplaceMinuteZeroSecond(ts, (Minute(ts) \div tf) * tf)

\* lines 91-95 and 116-120: the tick opens a new in-progress candle
StartCandle(bucket_start, price) ==
    [current_start_time |-> bucket_start, current_open |-> price,
     current_high |-> price, current_low |-> price, current_close |-> price]

SameBucket_high_overwritten(b, price) ==
    [b EXCEPT !.current_high = price,
              !.current_low = Min(b.current_low, price),
              !.current_close = price]

SameBucket_close_kept(b, price) ==
    [b EXCEPT !.current_high = Max(b.current_high, price),
              !.current_low = Min(b.current_low, price)]

\* lines 100-102: a tick of the in-progress bucket
SameBucket(b, price) ==
    [b EXCEPT !.current_high = Max(b.current_high, price),
              !.current_low = Min(b.current_low, price),
              !.current_close = price]

\* lines 107-113: the candle built from the in-progress fields
CurrentCandle(b) ==
    Candle(b.current_start_time, b.current_open, b.current_high,
           b.current_low, b.current_close)

RolledOver_any_other_bucket(bucket_start, b) == bucket_start # b.current_start_time

\* line 106: the bucket has rolled over
RolledOver(bucket_start, b) == bucket_start > b.current_start_time

EarlierBucket_as_same_bucket(b, price) == [b |-> SameBucket(b, price), ret |-> {}]

\* lines 124-126: a tick of an earlier bucket
EarlierBucket(b, price) == [b |-> b, ret |-> {}]

update_with_tick(b, price, ts, tf) ==
    LET bucket_start == _compute_bucket_start(ts, tf) IN
    IF b.current_start_time = None
    THEN [b |-> StartCandle(bucket_start, price), ret |-> {}]
    ELSE IF bucket_start = b.current_start_time
    THEN [b |-> SameBucket(b, price), ret |-> {}]
    ELSE IF RolledOver(bucket_start, b)
    THEN [b |-> StartCandle(bucket_start, price), ret |-> {CurrentCandle(b)}]
    ELSE EarlierBucket(b, price)

get_current_candle_sealing(b) == [b |-> NewBuilder, ret |-> {CurrentCandle(b)}]

get_current_candle(b) ==
    IF b.current_start_time = None
    THEN [b |-> b, ret |-> {}]
    ELSE [b |-> b, ret |-> {CurrentCandle(b)}]

----------------------------------------------------------------------------
(* BacktestEngine: indicators                                              *)
(*                                                                         *)
(* A bar is its Close; its time is its index in the frame, so bar times    *)
(* are strictly ascending.  Indicator values are exact rationals           *)
(* [num, den] with den > 0; NaN is the value with den = 0.                 *)

NaN == [num |-> 0, den |-> 0]

Zero == [num |-> 0, den |-> 1]

\* pd.isna
IsNa(x) == x.den = 0

Abs(a) == IF a >= 0 THEN a ELSE 0 - a

RECURSIVE Pow(_, _)
Pow(b, n) == IF n = 0 THEN 1 ELSE b * Pow(b, n - 1)

\* line 142, delta.where(delta > 0, 0): the NaN delta of the first row gives 0
Gain(prices, i) ==
    IF i >= 2 /\ prices[i] - prices[i - 1] > 0 THEN prices[i] - prices[i - 1] ELSE 0

\* line 143, -delta.where(delta < 0, 0)
Loss(prices, i) ==
    IF i >= 2 /\ prices[i] - prices[i - 1] < 0 THEN prices[i - 1] - prices[i] ELSE 0

RECURSIVE GainSum(_, _, _)
\* sum of the n gains up to row i: rolling(window=n) over the gain column
GainSum(prices, i, n) ==
    IF n = 0 THEN 0 ELSE Gain(prices, i) + GainSum(prices, i - 1, n - 1)

RECURSIVE LossSum(_, _, _)
LossSum(prices, i, n) ==
    IF n = 0 THEN 0 ELSE Loss(prices, i) + LossSum(prices, i - 1, n - 1)

\* rolling(window=period).mean() is NaN until the window holds `period` rows;
\* rs = gain / loss is NaN for 0 / 0 and inf for gain / 0, which gives rsi 100;
\* 100 - 100 / (1 + g / l) = 100 * g / (g + l)
_calculate_rsi(prices, period) ==
    [i \in 1..Len(prices) |->
        IF i < period THEN NaN
        ELSE LET g == GainSum(prices, i, period)
                 l == LossSum(prices, i, period)
             IN IF g = 0 /\ l = 0 THEN NaN
                ELSE [num |-> 100 * g, den |-> g + l]]

RECURSIVE EwmScaled(_, _, _)
\* ewm(span, adjust=False).mean() of row i, times (span + 1)^(i - 1):
\* y[1] = x[1], y[i] = (2 * x[i] + (span - 1) * y[i - 1]) / (span + 1)
EwmScaled(x, i, span) ==
    IF i = 1 THEN x[1]
    ELSE 2 * x[i] * Pow(span + 1, i - 2) + (span - 1) * EwmScaled(x, i - 1, span)

Ewm(x, span) ==
    [i \in 1..Len(x) |-> [num |-> EwmScaled(x, i, span), den |-> Pow(span + 1, i - 1)]]

\* The RSI and trend EMA columns; EMA_RSI_Fast and EMA_RSI_Slow are computed
\* by the code but read by no signal and are left out.
calculate_indicators(closes, p) ==
    [Close |-> closes,
     RSI |-> _calculate_rsi(closes, p.rsi_period),
     EMA_Trend |-> Ewm(closes, p.trend_ema)]

\* one row of the frame
Row(ind, i) == [Close |-> ind.Close[i], RSI |-> ind.RSI[i], EMA_Trend |-> ind.EMA_Trend[i]]

\* comparisons of a rational with an integer
RatLe(x, k) == x.num <= k * x.den

RatGe(x, k) == x.num >= k * x.den

RatLt(x, k) == x.num < k * x.den

RatGt(x, k) == x.num > k * x.den

----------------------------------------------------------------------------
(* BacktestEngine: signals and position                                    *)

NoExit == "None"

The(s) == CHOOSE x \in s : TRUE

NewEngine(p) ==
    [trades |-> <<>>, equity_curve |-> <<>>, current_equity |-> p.initial_equity,
     position |-> {}, highest_equity |-> p.initial_equity,
     lowest_equity |-> p.initial_equity]

EquityPoint(time, equity) == [time |-> time, equity |-> equity]

check_buy_signal_ignoring_position(e, row, prev_row) ==
    IF IsNa(row.RSI) THEN FALSE
    ELSE IF prev_row = {} THEN FALSE
    ELSE IF IsNa(The(prev_row).RSI) THEN FALSE
    ELSE RatLe(The(prev_row).RSI, 40) /\ RatGt(row.RSI, 40)

\* the buy signal with an undefined RSI compared like the number 0
check_buy_signal_nan_as_zero(e, row, prev_row) ==
    IF e.position # {} THEN FALSE
    ELSE IF prev_row = {} THEN FALSE
    ELSE RatLe(The(prev_row).RSI, 40) /\ RatGt(row.RSI, 40)

check_buy_signal(e, row, prev_row) ==
    IF e.position # {} THEN FALSE
    ELSE IF IsNa(row.RSI) THEN FALSE
    ELSE IF prev_row = {} THEN FALSE
    ELSE IF IsNa(The(prev_row).RSI) THEN FALSE
    ELSE RatLe(The(prev_row).RSI, 40) /\ RatGt(row.RSI, 40)

check_sell_signal_on_falling(e, row, prev_row) ==
    IF e.position # {} THEN FALSE
    ELSE IF IsNa(row.RSI) THEN FALSE
    ELSE IF prev_row = {} THEN FALSE
    ELSE IF IsNa(The(prev_row).RSI) THEN FALSE
    ELSE RatLt(row.RSI, 60)

check_sell_signal(e, row, prev_row) ==
    IF e.position # {} THEN FALSE
    ELSE IF IsNa(row.RSI) THEN FALSE
    ELSE IF prev_row = {} THEN FALSE
    ELSE IF IsNa(The(prev_row).RSI) THEN FALSE
    ELSE RatGe(The(prev_row).RSI, 60) /\ RatLt(row.RSI, 60)

check_exit_conditions_ema_first(e, p, row) ==
    IF e.position = {} THEN [e |-> e, reason |-> NoExit]
    ELSE
    LET pos == The(e.position)
        entry_price == pos.entry_price
        current_price == row.Close
    IN
    IF IsNa(row.EMA_Trend) THEN [e |-> e, reason |-> NoExit]
    ELSE IF pos.direction = "LONG" THEN
        LET highest == Max(pos.highest_price, current_price) IN
        [e |-> [e EXCEPT !.position = {[pos EXCEPT !.highest_price = highest]}],
         reason |->
            IF current_price >= entry_price + p.tp_points THEN "TP"
            ELSE IF current_price * row.EMA_Trend.den < row.EMA_Trend.num THEN "EMA_EXIT"
            ELSE IF current_price <= highest - p.trail_offset THEN "TRAIL"
            ELSE NoExit]
    ELSE IF pos.direction = "SHORT" THEN
        LET lowest == Min(pos.lowest_price, current_price) IN
        [e |-> [e EXCEPT !.position = {[pos EXCEPT !.lowest_price = lowest]}],
         reason |->
            IF current_price <= entry_price - p.tp_points THEN "TP"
            ELSE IF current_price * row.EMA_Trend.den > row.EMA_Trend.num THEN "EMA_EXIT"
            ELSE IF current_price >= lowest + p.trail_offset THEN "TRAIL"
            ELSE NoExit]
    ELSE [e |-> e, reason |-> NoExit]

check_exit_conditions(e, p, row) ==
    IF e.position = {} THEN [e |-> e, reason |-> NoExit]
    ELSE
    LET pos == The(e.position)
        entry_price == pos.entry_price
        current_price == row.Close
    IN
    IF IsNa(row.EMA_Trend) THEN [e |-> e, reason |-> NoExit]
    ELSE IF pos.direction = "LONG" THEN
        LET highest == Max(pos.highest_price, current_price) IN
        [e |-> [e EXCEPT !.position = {[pos EXCEPT !.highest_price = highest]}],
         reason |->
            IF current_price >= entry_price + p.tp_points THEN "TP"
            ELSE IF current_price <= highest - p.trail_offset THEN "TRAIL"
            ELSE IF current_price * row.EMA_Trend.den < row.EMA_Trend.num THEN "EMA_EXIT"
            ELSE NoExit]
    ELSE IF pos.direction = "SHORT" THEN
        LET lowest == Min(pos.lowest_price, current_price) IN
        [e |-> [e EXCEPT !.position = {[pos EXCEPT !.lowest_price = lowest]}],
         reason |->
            IF current_price <= entry_price - p.tp_points THEN "TP"
            ELSE IF current_price >= lowest + p.trail_offset THEN "TRAIL"
            ELSE IF current_price * row.EMA_Trend.den > row.EMA_Trend.num THEN "EMA_EXIT"
            ELSE NoExit]
    ELSE [e |-> e, reason |-> NoExit]

_open_position(e, direction, price, time) ==
    [e EXCEPT !.position =
        {[direction |-> direction, entry_price |-> price, entry_time |-> time,
          highest_price |-> price, lowest_price |-> price]}]

_close_position_unsigned(e, p, exit_price, exit_time, reason) ==
    IF e.position = {} THEN e
    ELSE
    LET pos == The(e.position)
        pnl_points == IF pos.direction = "LONG"
                      THEN exit_price - pos.entry_price
                      ELSE exit_price - pos.entry_price
        pnl_money == pnl_points * p.lot_size
        equity == e.current_equity + pnl_money
        trade == [direction |-> pos.direction, entry_time |-> pos.entry_time,
                  entry_price |-> pos.entry_price, exit_time |-> exit_time,
                  exit_price |-> exit_price, pnl_points |-> pnl_points,
                  pnl_money |-> pnl_money, reason |-> reason]
    IN [e EXCEPT !.current_equity = equity,
                 !.highest_equity = Max(e.highest_equity, equity),
                 !.lowest_equity = Min(e.lowest_equity, equity),
                 !.trades = Append(e.trades, trade),
                 !.position = {}]

_close_position_equity_in_points(e, p, exit_price, exit_time, reason) ==
    IF e.position = {} THEN e
    ELSE
    LET pos == The(e.position)
        pnl_points == IF pos.direction = "LONG"
                      THEN exit_price - pos.entry_price
                      ELSE pos.entry_price - exit_price
        pnl_money == pnl_points * p.lot_size
        equity == e.current_equity + pnl_points
        trade == [direction |-> pos.direction, entry_time |-> pos.entry_time,
                  entry_price |-> pos.entry_price, exit_time |-> exit_time,
                  exit_price |-> exit_price, pnl_points |-> pnl_points,
                  pnl_money |-> pnl_money, reason |-> reason]
    IN [e EXCEPT !.current_equity = equity,
                 !.highest_equity = Max(e.highest_equity, equity),
                 !.lowest_equity = Min(e.lowest_equity, equity),
                 !.trades = Append(e.trades, trade),
                 !.position = {}]

_close_position(e, p, exit_price, exit_time, reason) ==
    IF e.position = {} THEN e
    ELSE
    LET pos == The(e.position)
        pnl_points == IF pos.direction = "LONG"
                      THEN exit_price - pos.entry_price
                      ELSE pos.entry_price - exit_price
        pnl_money == pnl_points * p.lot_size
        equity == e.current_equity + pnl_money
        trade == [direction |-> pos.direction, entry_time |-> pos.entry_time,
                  entry_price |-> pos.entry_price, exit_time |-> exit_time,
                  exit_price |-> exit_price, pnl_points |-> pnl_points,
                  pnl_money |-> pnl_money, reason |-> reason]
    IN [e EXCEPT !.current_equity = equity,
                 !.highest_equity = Max(e.highest_equity, equity),
                 !.lowest_equity = Min(e.lowest_equity, equity),
                 !.trades = Append(e.trades, trade),
                 !.position = {}]

\* lines 277-280: exit check of an open position
ExitStep(e, p, row, time) ==
    IF e.position # {}
    THEN LET x == check_exit_conditions(e, p, row) IN
         IF x.reason # NoExit
         THEN _close_position(x.e, p, row.Close, time, x.reason)
         ELSE x.e
    ELSE e

\* lines 283-287: entry check when no position is open
EntryStep(e, row, prev_row, time) ==
    IF e.position = {}
    THEN IF check_buy_signal(e, row, prev_row)
         THEN _open_position(e, "LONG", row.Close, time)
         ELSE IF check_sell_signal(e, row, prev_row)
         THEN _open_position(e, "SHORT", row.Close, time)
         ELSE e
    ELSE e

\* the loop body with the entry check as the else branch of the exit check
run_bar_exit_or_entry(e, p, ind, i) ==
    LET row == Row(ind, i)
        prev_row == IF i = 1 THEN {} ELSE {Row(ind, i - 1)}
        e1 == ExitStep(e, p, row, i)
        e2 == IF e.position = {} THEN EntryStep(e1, row, prev_row, i) ELSE e1
    IN [e2 EXCEPT !.equity_curve = Append(@, EquityPoint(i, e2.current_equity))]

\* the loop body recording an equity point only when the equity changed
run_bar_point_on_change(e, p, ind, i) ==
    LET row == Row(ind, i)
        prev_row == IF i = 1 THEN {} ELSE {Row(ind, i - 1)}
        e1 == ExitStep(e, p, row, i)
        e2 == EntryStep(e1, row, prev_row, i)
    IN IF e2.current_equity = e.current_equity THEN e2
       ELSE [e2 EXCEPT !.equity_curve = Append(@, EquityPoint(i, e2.current_equity))]

\* lines 272-291: the body of the loop of run for bar i
run_bar(e, p, ind, i) ==
    LET row == Row(ind, i)
        prev_row == IF i = 1 THEN {} ELSE {Row(ind, i - 1)}
        e1 == ExitStep(e, p, row, i)
        e2 == EntryStep(e1, row, prev_row, i)
    IN [e2 EXCEPT !.equity_curve = Append(@, EquityPoint(i, e2.current_equity))]

\* the closing at the end stamped with the time of the first bar
CloseAtEnd_at_first_bar(e, p, closes) ==
    IF e.position # {}
    THEN _close_position(e, p, closes[Len(closes)], 1, "END_OF_BACKTEST")
    ELSE e

CloseAtEnd_skipped(e, p, closes) == e

\* lines 294-298: close any open position at the end
CloseAtEnd(e, p, closes) ==
    IF e.position # {}
    THEN _close_position(e, p, closes[Len(closes)], Len(closes), "END_OF_BACKTEST")
    ELSE e

\* lines 272-291: the loop over the first n bars
RECURSIVE RunBars(_, _, _, _)
RunBars(e, p, closes, n) ==
    IF n = 0 THEN e
    ELSE run_bar(RunBars(e, p, closes, n - 1), p, calculate_indicators(closes, p), n)

\* the drawdown taken as a fraction of the lowest equity
_calculate_max_drawdown_over_lowest(e) ==
    IF e.equity_curve = <<>> \/ e.highest_equity <= 0 THEN Zero
    ELSE [num |-> Abs(e.lowest_equity - e.highest_equity) * 100, den |-> e.lowest_equity]

_calculate_max_drawdown(e) ==
    IF e.equity_curve = <<>> \/ e.highest_equity <= 0 THEN Zero
    ELSE [num |-> Abs(e.lowest_equity - e.highest_equity) * 100, den |-> e.highest_equity]

RECURSIVE SumPoints(_, _)
SumPoints(trades, n) ==
    IF n = 0 THEN 0 ELSE trades[n].pnl_points + SumPoints(trades, n - 1)

\* max(trades, key=pnl_money) and min(...): the first trade of the extreme value
FirstExtreme(trades, sign) ==
    IF trades = <<>> THEN {}
    ELSE {trades[CHOOSE k \in 1..Len(trades) :
            /\ \A j \in 1..Len(trades) :
                  sign * trades[j].pnl_money <= sign * trades[k].pnl_money
            /\ \A j \in 1..(k - 1) :
                  sign * trades[j].pnl_money < sign * trades[k].pnl_money]}

\* the result with a zero-P&L trade counted as a win
_build_result_zero_as_win(e, p) ==
    LET win_trades == Cardinality({k \in 1..Len(e.trades) : e.trades[k].pnl_money >= 0})
        loss_trades == Cardinality({k \in 1..Len(e.trades) : e.trades[k].pnl_money < 0})
        total_trades == Len(e.trades)
    IN [summary |->
           [total_trades |-> total_trades,
            win_trades |-> win_trades,
            loss_trades |-> loss_trades,
            winrate |-> IF total_trades > 0
                        THEN [num |-> win_trades * 100, den |-> total_trades]
                        ELSE Zero,
            net_pnl_money |-> e.current_equity - p.initial_equity,
            net_pnl_points |-> SumPoints(e.trades, Len(e.trades)),
            max_drawdown_pct |-> _calculate_max_drawdown(e),
            best_trade |-> FirstExtreme(e.trades, 1),
            worst_trade |-> FirstExtreme(e.trades, 0 - 1)],
        equity_curve |-> e.equity_curve,
        trades |-> e.trades]

_build_result(e, p) ==
    LET win_trades == Cardinality({k \in 1..Len(e.trades) : e.trades[k].pnl_money > 0})
        loss_trades == Cardinality({k \in 1..Len(e.trades) : e.trades[k].pnl_money < 0})
        total_trades == Len(e.trades)
    IN [summary |->
           [total_trades |-> total_trades,
            win_trades |-> win_trades,
            loss_trades |-> loss_trades,
            winrate |-> IF total_trades > 0
                        THEN [num |-> win_trades * 100, den |-> total_trades]
                        ELSE Zero,
            net_pnl_money |-> e.current_equity - p.initial_equity,
            net_pnl_points |-> SumPoints(e.trades, Len(e.trades)),
            max_drawdown_pct |-> _calculate_max_drawdown(e),
            best_trade |-> FirstExtreme(e.trades, 1),
            worst_trade |-> FirstExtreme(e.trades, 0 - 1)],
        equity_curve |-> e.equity_curve,
        trades |-> e.trades]

_empty_result ==
    [summary |->
        [total_trades |-> 0, win_trades |-> 0, loss_trades |-> 0, winrate |-> Zero,
         net_pnl_money |-> 0, net_pnl_points |-> 0, max_drawdown_pct |-> Zero,
         best_trade |-> {}, worst_trade |-> {}],
     equity_curve |-> <<>>,
     trades |-> <<>>]

----------------------------------------------------------------------------
(* Operations of the candle part                                           *)

\* BacktestEngine.run as a whole, for the bars fetched: the reset makes the
\* state before the run irrelevant
run(p, closes) ==
    IF closes = <<>> THEN _empty_result
    ELSE LET seeded == [NewEngine(p) EXCEPT
                           !.equity_curve = <<EquityPoint(1, p.initial_equity)>>]
             looped == RunBars(seeded, p, closes, Len(closes))
         IN _build_result(CloseAtEnd(looped, p, closes), p)

----------------------------------------------------------------------------
(* MockFeed                                                                *)

\* the whole seconds of a time in tenths; the builder reads no finer part
ToSeconds(t) == t \div 10

\* MockFeed.__init__ without the minimum of the tick rate
NewFeed_without_minimum_rate(start_price, tick_rate_seconds, now) ==
    [start_price |-> start_price, current_price |-> start_price,
     current_time |-> now, on_candle_closed |-> "None",
     tick_rate_seconds |-> tick_rate_seconds, tick_count |-> 0]

\* MockFeed.__init__
NewFeed(start_price, tick_rate_seconds, now) ==
    [start_price |-> start_price, current_price |-> start_price,
     current_time |-> now, on_candle_closed |-> "None",
     tick_rate_seconds |-> Max(5, tick_rate_seconds), tick_count |-> 0]

\* one call of the callback: its argument and whether it raised
Call(candle, callback) == [candle |-> candle, raised |-> callback = "raises"]

set_on_candle_closed(f, callback) == [f EXCEPT !.on_candle_closed = callback]

\* generate_tick letting the exception of the callback escape
generate_tick_propagating(f, b, price_change, tf) ==
    LET price == Max(f.current_price + price_change, 10)
        time == f.current_time + f.tick_rate_seconds
        r == update_with_tick(b, price, ToSeconds(time), tf)
        count == f.tick_count + 1
        res == [price |-> price, timestamp |-> time, closed_candle |-> r.ret,
                tick_count |-> count]
        notify == r.ret # {} /\ f.on_candle_closed # "None"
    IN [feed |-> [f EXCEPT !.current_price = price, !.current_time = time,
                           !.tick_count = count],
        b |-> r.b,
        called |-> IF notify THEN <<Call(The(r.ret), f.on_candle_closed)>> ELSE <<>>,
        result |-> IF notify /\ f.on_candle_closed = "raises" THEN {} ELSE {res}]

\* generate_tick calling the callback once more after it raised
generate_tick_retrying(f, b, price_change, tf) ==
    LET price == Max(f.current_price + price_change, 10)
        time == f.current_time + f.tick_rate_seconds
        r == update_with_tick(b, price, ToSeconds(time), tf)
        count == f.tick_count + 1
        res == [price |-> price, timestamp |-> time, closed_candle |-> r.ret,
                tick_count |-> count]
        notify == r.ret # {} /\ f.on_candle_closed # "None"
    IN [feed |-> [f EXCEPT !.current_price = price, !.current_time = time,
                           !.tick_count = count],
        b |-> r.b,
        called |-> IF notify
                   THEN IF f.on_candle_closed = "raises"
                        THEN <<Call(The(r.ret), "raises"), Call(The(r.ret), "raises")>>
                        ELSE <<Call(The(r.ret), f.on_candle_closed)>>
                   ELSE <<>>,
        result |-> {res}]

\* generate_tick: the new feed fields and builder, the calls of the callback
\* and the dict returned (the set is empty when an exception escapes)
generate_tick(f, b, price_change, tf) ==
    LET price == Max(f.current_price + price_change, 10)
        time == f.current_time + f.tick_rate_seconds
        r == update_with_tick(b, price, ToSeconds(time), tf)
        count == f.tick_count + 1
        res == [price |-> price, timestamp |-> time, closed_candle |-> r.ret,
                tick_count |-> count]
        notify == r.ret # {} /\ f.on_candle_closed # "None"
    IN [feed |-> [f EXCEPT !.current_price = price, !.current_time = time,
                           !.tick_count = count],
        b |-> r.b,
        called |-> IF notify THEN <<Call(The(r.ret), f.on_candle_closed)>> ELSE <<>>,
        result |-> {res}]

\* reset: start_price or self.start_price, a new clock reading, tick_count 0
reset(f, start_price, now) ==
    [f EXCEPT !.current_price = IF start_price = {} \/ The(start_price) = 0
                                THEN f.start_price ELSE The(start_price),
              !.current_time = now,
              !.tick_count = 0]

\* a MockFeed after __init__
NewMockFeed(start_price, tick_rate_seconds, now) ==
    /\ feed = NewFeed(start_price, tick_rate_seconds, now)
    /\ wall = now
    /\ tick_result = {}
    /\ calls = <<>>
    /\ generated = <<>>
    /\ sealed = <<>>

----------------------------------------------------------------------------
(* HTTP API: /api/strategy and /api/backtest over the strategy_config table *)

\* StrategyConfig(): a row with the column defaults
StrategyConfig(id) ==
    [id |-> id, rsi_period |-> 14, ema_fast |-> 3, ema_slow |-> 7, trend_ema |-> 20,
     tp_points |-> 100, trail_offset |-> 50, lot_size |-> 1]

\* db.query(StrategyConfig).first(): the first row, or None
first(rows) == IF rows = <<>> THEN {} ELSE {rows[1]}

\* db.add(config); db.commit() for an object that is not yet a row
Insert(rows, config) == Append(rows, [config EXCEPT !.id = Len(rows) + 1])

\* update_strategy lines 57-60: setattr for every field given and not None
SetFields(config, body) ==
    [k \in DOMAIN config |->
        IF k \in Fields /\ body[k] # {} THEN The(body[k]) ELSE config[k]]

\* db.add(config); db.commit() for an object loaded from a row
Update(rows, config) ==
    [j \in 1..Len(rows) |-> IF rows[j].id = config.id THEN config ELSE rows[j]]

\* run_backtest lines 58-64: request.field or strategy_config.field
Effective(body, config) ==
    [f \in Fields |->
        IF body[f] # {} /\ The(body[f]) # 0 THEN The(body[f]) ELSE config[f]]

\* run_backtest lines 73-84: the engine's parameters
EngineParams(effective) ==
    [rsi_period |-> effective.rsi_period, trend_ema |-> effective.trend_ema,
     tp_points |-> effective.tp_points, trail_offset |-> effective.trail_offset,
     lot_size |-> effective.lot_size, initial_equity |-> 100000]

\* run_backtest lines 86-108: run; without trades the handler calls
\* engine.run_simple_strategy, which BacktestEngine does not define, and the
\* AttributeError becomes the answer 500
Respond(effective, bars) ==
    LET res == run(EngineParams(effective), bars) IN
    IF res.summary.total_trades = 0
    THEN [status |-> 500, body |-> {}]
    ELSE [status |-> 200, body |-> {res}]

NoRequest ==
    [kind |-> "none", body |-> NoFields, bars |-> <<>>, pc |-> "idle", seen |-> {},
     effective |-> {}, response |-> {}]

\* an empty table and no request yet
NewApi ==
    /\ table = <<>>
    /\ requests = [i \in 1..MaxRequests |-> NoRequest]

IsPrefix(s, t) == Len(s) <= Len(t) /\ \A i \in 1..Len(s) : s[i] = t[i]

\* The ticks a caller may deliver next: any tick of the small input sets
\* while the history is short, or the next tick of the documented example.
NextTicks ==
    (IF Len(ticks) < MaxTicks THEN [price : Prices, ts : Times] ELSE {})
    \cup
    (IF Len(ticks) < Len(ExampleTicks) /\ IsPrefix(ticks, ExampleTicks)
     THEN {ExampleTicks[Len(ticks) + 1]} ELSE {})

\* a BacktestEngine after __init__, before any run
NewBacktest(p) ==
    /\ params = p
    /\ engine = NewEngine(p)
    /\ pc = "idle"
    /\ df = <<>>
    /\ idx = 1
    /\ result = {}
    /\ opened = 0
    /\ download = "none"
    /\ lists_returned = FALSE
    /\ rerun = FALSE

\* a CandleBuilder after __init__
NewCandleBuilder(tf) ==
    /\ timeframe_minutes = tf
    /\ builder = NewBuilder
    /\ lastOp = "none"
    /\ ret = {}
    /\ ticks = <<>>
    /\ emitted = <<>>
    /\ transitions = 0

InitCandle ==
    /\ \E tf \in Timeframes : NewCandleBuilder(tf)
    /\ NewBacktest(CHOOSE p \in ParamSets : TRUE)
    /\ NewMockFeed(1000, 10, At(0, 9, 0, 0))
    /\ NewApi

UpdateWithTick ==
    \E tk \in NextTicks :
        LET r == update_with_tick(builder, tk.price, tk.ts, timeframe_minutes)
            later == /\ builder.current_start_time # None
                     /\ _compute_bucket_start(tk.ts, timeframe_minutes)
                            > builder.current_start_time
        IN /\ builder' = r.b
           /\ ret' = r.ret
           /\ lastOp' = "tick"
           /\ ticks' = Append(ticks, tk)
           /\ emitted' = IF r.ret = {} THEN emitted
                         ELSE Append(emitted, CHOOSE c \in r.ret : TRUE)
           /\ transitions' = IF later THEN transitions + 1 ELSE transitions
           /\ UNCHANGED <<timeframe_minutes, btVars, feedVars, apiVars>>

GetCurrentCandle ==
    LET r == get_current_candle(builder) IN
    /\ builder' = r.b
    /\ ret' = r.ret
    /\ lastOp' = "peek"
    /\ UNCHANGED <<timeframe_minutes, ticks, emitted, transitions, btVars, feedVars, apiVars>>

NextCandle == UpdateWithTick \/ GetCurrentCandle

SpecCandle == InitCandle /\ [][NextCandle]_vars

----------------------------------------------------------------------------
(* Operations of the backtest part: BacktestEngine.run, one step per bar   *)

InitBacktest ==
    /\ \E p \in ParamSets : NewBacktest(p)
    /\ NewCandleBuilder(15)
    /\ NewMockFeed(1000, 10, At(0, 9, 0, 0))
    /\ NewApi

\* what yf.download may do: return bars, return None, return an empty frame,
\* or raise
Downloads ==
    [kind : {"bars"}, bars : BarSeries \ {<<>>}]
    \cup [kind : {"None", "empty", "raises"}, bars : {<<>>}]

\* the run without bars answering with a result built from the runtime state
RunEmpty_building_result ==
    /\ pc = "idle"
    /\ \E d \in Downloads :
          /\ fetch_candles(d) = <<>>
          /\ df' = fetch_candles(d)
          /\ download' = "no bars"
    /\ result' = {_build_result(engine, params)}
    /\ UNCHANGED <<params, engine, pc, idx, opened, lists_returned, rerun, candleVars, feedVars, apiVars>>

\* lines 250-253: the fetch gives no bars (or failed): the empty result is
\* returned and the runtime state is left as the last run left it
RunEmpty ==
    /\ pc = "idle"
    /\ \E d \in Downloads :
          /\ fetch_candles(d) = <<>>
          /\ df' = fetch_candles(d)
          /\ download' = "no bars"
    /\ result' = {_empty_result}
    /\ UNCHANGED <<params, engine, pc, idx, opened, lists_returned, rerun, candleVars, feedVars, apiVars>>

\* the start of a run that keeps the runtime state of the run before
RunStart_without_reset ==
    /\ pc = "idle"
    /\ \E d \in Downloads :
          /\ fetch_candles(d) # <<>>
          /\ df' = fetch_candles(d)
          /\ download' = "bars"
    /\ engine' = [engine EXCEPT
                      !.equity_curve = Append(@, EquityPoint(1, engine.current_equity))]
    /\ lists_returned' = lists_returned
    /\ rerun' = (engine.trades # <<>>)
    /\ idx' = 1
    /\ opened' = 0
    /\ result' = {}
    /\ pc' = "loop"
    /\ UNCHANGED <<params, candleVars, feedVars, apiVars>>

\* lines 250-269: fetch, reset of the runtime state, seed equity point
RunStart ==
    /\ pc = "idle"
    /\ \E d \in Downloads :
          /\ fetch_candles(d) # <<>>
          /\ df' = fetch_candles(d)
          /\ download' = "bars"
    /\ engine' = [NewEngine(params) EXCEPT
                      !.equity_curve = <<EquityPoint(1, params.initial_equity)>>]
    /\ lists_returned' = FALSE
    /\ rerun' = (engine.trades # <<>>)
    /\ idx' = 1
    /\ opened' = 0
    /\ result' = {}
    /\ pc' = "loop"
    /\ UNCHANGED <<params, candleVars, feedVars, apiVars>>

\* lines 272-291: one iteration of the loop
RunBar ==
    /\ pc = "loop"
    /\ idx <= Len(df)
    /\ engine' = run_bar(engine, params, calculate_indicators(df, params), idx)
    /\ opened' = IF \E pos \in engine'.position : pos.entry_time = idx
                 THEN opened + 1 ELSE opened
    /\ idx' = idx + 1
    /\ UNCHANGED <<params, pc, df, result, download, lists_returned, rerun, candleVars, feedVars, apiVars>>

\* lines 293-302: the loop is over; close an open position, build the result
RunEnd ==
    /\ pc = "loop"
    /\ idx > Len(df)
    /\ engine' = CloseAtEnd(engine, params, df)
    /\ result' = {_build_result(engine', params)}
    /\ lists_returned' = TRUE
    /\ rerun' = FALSE
    /\ pc' = "idle"
    /\ UNCHANGED <<params, df, idx, opened, download, candleVars, feedVars, apiVars>>

NextBacktest == RunEmpty \/ RunStart \/ RunBar \/ RunEnd

SpecBacktest == InitBacktest /\ [][NextBacktest]_vars

----------------------------------------------------------------------------
(* Operations of the feed part: MockFeed with its CandleBuilder            *)

InitFeed ==
    /\ \E sp \in StartPrices, rate \in TickRates, now \in WallClock :
          NewMockFeed(sp, rate, now)
    /\ NewCandleBuilder(15)
    /\ NewBacktest(CHOOSE p \in ParamSets : TRUE)
    /\ NewApi

SetOnCandleClosed ==
    /\ \E callback \in {"returns", "raises"} :
          /\ callback # feed.on_candle_closed
          /\ feed' = set_on_candle_closed(feed, callback)
    /\ UNCHANGED <<wall, tick_result, calls, generated, sealed, candleVars, btVars, apiVars>>

GenerateTick ==
    /\ Len(generated) < MaxGenerated
    /\ \E price_change \in PriceChanges :
          LET o == generate_tick(feed, builder, price_change, timeframe_minutes)
              rolled == /\ builder.current_start_time # None
                        /\ o.b.current_start_time > builder.current_start_time
          IN /\ feed' = o.feed
             /\ builder' = o.b
             /\ tick_result' = o.result
             /\ calls' = calls \o o.called
             /\ generated' = Append(generated,
                                    [price |-> o.feed.current_price,
                                     timestamp |-> o.feed.current_time])
             /\ sealed' = IF rolled /\ feed.on_candle_closed # "None"
                          THEN Append(sealed, CurrentCandle(builder)) ELSE sealed
    /\ UNCHANGED <<wall, timeframe_minutes, lastOp, ret, ticks, emitted, transitions,
                   btVars, apiVars>>

Reset ==
    /\ feed.tick_count > 0
    /\ \E start_price \in ResetPrices, now \in WallClock :
          /\ now >= wall
          /\ wall' = now
          /\ feed' = reset(feed, start_price, now)
    /\ builder' = NewBuilder
    /\ UNCHANGED <<tick_result, calls, generated, sealed, timeframe_minutes, lastOp,
                   ret, ticks, emitted, transitions, btVars, apiVars>>

NextFeed == SetOnCandleClosed \/ GenerateTick \/ Reset

SpecFeed == InitFeed /\ [][NextFeed]_vars

----------------------------------------------------------------------------
(* Operations of the API part: one step per database round trip            *)

InitApi ==
    /\ NewApi
    /\ NewCandleBuilder(15)
    /\ NewBacktest(CHOOSE p \in ParamSets : TRUE)
    /\ NewMockFeed(1000, 10, At(0, 9, 0, 0))

\* a request arrives
Arrive(i) ==
    /\ requests[i].pc = "idle"
    /\ \E r \in [kind : {"GET"}, body : {NoFields}, bars : {<<>>}]
               \cup [kind : {"PUT"}, body : UpdateBodies, bars : {<<>>}]
               \cup [kind : {"POST"}, body : BacktestBodies, bars : ApiBars] :
          requests' = [requests EXCEPT ![i] =
                          [NoRequest EXCEPT !.kind = r.kind, !.body = r.body,
                                            !.bars = r.bars, !.pc = "start"]]
    /\ UNCHANGED <<table, candleVars, btVars, feedVars>>

\* db.query(StrategyConfig).first(); run_backtest runs on the event loop, so
\* no other run_backtest is between its query and its commit
Query(i) ==
    /\ requests[i].pc = "start"
    /\ requests[i].kind = "POST" =>
          \A j \in 1..MaxRequests :
              ~(requests[j].kind = "POST" /\ requests[j].pc = "queried")
    /\ requests' = [requests EXCEPT ![i].seen = first(table), ![i].pc = "queried"]
    /\ UNCHANGED <<table, candleVars, btVars, feedVars>>

\* get_strategy lines 32-39
GetStrategy(i) ==
    /\ requests[i].pc = "queried"
    /\ requests[i].kind = "GET"
    /\ LET r == requests[i]
           rows == IF r.seen = {} THEN Insert(table, StrategyConfig(0)) ELSE table
           config == IF r.seen = {} THEN rows[Len(rows)] ELSE The(r.seen)
       IN /\ table' = rows
          /\ requests' = [requests EXCEPT ![i].pc = "done",
                              ![i].response = {[status |-> 200, body |-> {config}]}]
    /\ UNCHANGED <<candleVars, btVars, feedVars>>

\* update_strategy lines 52-67
UpdateStrategy(i) ==
    /\ requests[i].pc = "queried"
    /\ requests[i].kind = "PUT"
    /\ LET r == requests[i]
           rows == IF r.seen = {}
                   THEN Insert(table, SetFields(StrategyConfig(0), r.body))
                   ELSE Update(table, SetFields(The(r.seen), r.body))
           config == IF r.seen = {} THEN rows[Len(rows)]
                     ELSE SetFields(The(r.seen), r.body)
       IN /\ table' = rows
          /\ requests' = [requests EXCEPT ![i].pc = "done",
                              ![i].response = {[status |-> 200, body |-> {config}]}]
    /\ UNCHANGED <<candleVars, btVars, feedVars>>

\* run_backtest lines 48-108
RunBacktest(i) ==
    /\ requests[i].pc = "queried"
    /\ requests[i].kind = "POST"
    /\ LET r == requests[i]
           rows == IF r.seen = {} THEN Insert(table, StrategyConfig(0)) ELSE table
           config == IF r.seen = {} THEN rows[Len(rows)] ELSE The(r.seen)
           effective == Effective(r.body, config)
       IN /\ table' = rows
          /\ requests' = [requests EXCEPT ![i].pc = "done",
                              ![i].effective = {effective},
                              ![i].response = {Respond(effective, r.bars)}]
    /\ UNCHANGED <<candleVars, btVars, feedVars>>

NextApi ==
    \E i \in 1..MaxRequests :
        Arrive(i) \/ Query(i) \/ GetStrategy(i) \/ UpdateStrategy(i) \/ RunBacktest(i)

SpecApi == InitApi /\ [][NextApi]_vars

----------------------------------------------------------------------------
(* Properties of the candle part                                           *)

Range(s) == {s[i] : i \in 1..Len(s)}

Bucket(tk) == _compute_bucket_start(tk.ts, timeframe_minutes)

InProgress == IF builder.current_start_time = None THEN {} ELSE {CurrentCandle(builder)}

\* every candle the builder has produced: the sealed ones and the in-progress one
Produced == Range(emitted) \cup InProgress

\* C1: the number of candles returned by update_with_tick equals the number
\* of calls whose bucket was strictly later than the in-progress bucket; the
\* returned candles are candles of buckets that received a tick, each bucket
\* at most once, so a skipped bucket never yields a candle.
C1_SingleEmission ==
    /\ Len(emitted) = transitions
    /\ \A i \in 1..Len(emitted) :
          /\ \E j \in 1..Len(ticks) : Bucket(ticks[j]) = emitted[i].start_time
          /\ \A k \in 1..Len(emitted) :
                i < k => emitted[i].start_time < emitted[k].start_time
    /\ \A c \in Range(emitted) :
          builder.current_start_time > c.start_time

\* three ticks, one per bucket, the second transition skipping 09:30 and 09:45
C1_Witness ==
    /\ timeframe_minutes = 15
    /\ Len(ticks) = 3
    /\ Len(emitted) = 2
    /\ emitted[1].start_time = At(0, 9, 0, 0)
    /\ emitted[2].start_time = At(0, 9, 15, 0)
    /\ builder.current_start_time = At(0, 10, 0, 0)

\* C2: every candle returned by update_with_tick and every candle returned
\* by get_current_candle has low <= min(open, close) and high >= max(open, close).
C2_OhlcInvariant ==
    \A c \in Range(emitted) \cup ret :
        /\ c.low <= Min(c.open, c.close)
        /\ c.high >= Max(c.open, c.close)

C2_Witness ==
    /\ lastOp = "peek"
    /\ ret # {}
    /\ \E c \in Range(emitted) : c.high > Max(c.open, c.close)

PricesOf(start_time) ==
    LET js == {j \in 1..Len(ticks) : Bucket(ticks[j]) = start_time} IN
    [first |-> ticks[CHOOSE j \in js : \A k \in js : j <= k].price,
     last  |-> ticks[CHOOSE j \in js : \A k \in js : j >= k].price,
     all   |-> {ticks[j].price : j \in js}]

NonDecreasingBuckets ==
    \A i, j \in 1..Len(ticks) : i <= j => Bucket(ticks[i]) <= Bucket(ticks[j])

\* C3: when ticks arrive with non-decreasing buckets, every bucket that got a
\* tick has one candle (sealed, or in progress for the last bucket) whose open
\* is the bucket's first tick price, close the last, high the maximum and low
\* the minimum; the eight example ticks on a 15-minute builder return no
\* candle and leave open=100.0 high=101.2 low=100.0 close=100.7 at 09:00:00.
C3_CandleOfBucket ==
    /\ NonDecreasingBuckets =>
          /\ {c.start_time : c \in Produced} = {Bucket(ticks[j]) : j \in 1..Len(ticks)}
          /\ \A c \in Produced :
                LET p == PricesOf(c.start_time) IN
                /\ c.open = p.first
                /\ c.close = p.last
                /\ \A x \in p.all : c.low <= x /\ x <= c.high
                /\ c.high \in p.all
                /\ c.low \in p.all
    /\ (timeframe_minutes = 15 /\ ticks = ExampleTicks) =>
          /\ emitted = <<>>
          /\ InProgress = {Candle(At(0, 9, 0, 0), 1000, 1012, 1000, 1007)}

C3_Witness ==
    /\ timeframe_minutes = 15
    /\ ticks = ExampleTicks
    /\ lastOp = "peek"
    /\ ret = {Candle(At(0, 9, 0, 0), 1000, 1012, 1000, 1007)}

\* C4: the bucket start of a timestamp has the timestamp's date and hour, the
\* largest multiple of timeframe_minutes not above its minute, and second 0;
\* with timeframe 15 ticks at minutes 7 and 14 share the :00 bucket and a tick
\* at minute 15 seals the :00 candle and opens the :15 candle.
C4_BucketStart ==
    /\ \A j \in 1..Len(ticks) :
          LET ts == ticks[j].ts
              b == _compute_bucket_start(ts, timeframe_minutes)
          IN /\ Day(b) = Day(ts)
             /\ Hour(b) = Hour(ts)
             /\ Minute(b) % timeframe_minutes = 0
             /\ Minute(b) <= Minute(ts)
             /\ Minute(ts) < Minute(b) + timeframe_minutes
             /\ Second(b) = 0
    /\ ( /\ timeframe_minutes = 15
         /\ Len(ticks) = 3
         /\ <<Minute(ticks[1].ts), Minute(ticks[2].ts), Minute(ticks[3].ts)>> = <<7, 14, 15>>
         /\ Hour(ticks[1].ts) = Hour(ticks[3].ts) /\ Hour(ticks[2].ts) = Hour(ticks[3].ts) )
       => /\ Len(emitted) = 1
          /\ emitted[1].start_time = At(0, Hour(ticks[3].ts), 0, 0)
          /\ emitted[1].open = ticks[1].price
          /\ emitted[1].close = ticks[2].price
          /\ builder.current_start_time = At(0, Hour(ticks[3].ts), 15, 0)
          /\ lastOp = "tick" => ret = {emitted[1]}

C4_Witness ==
    /\ timeframe_minutes = 15
    /\ Len(ticks) = 3
    /\ ticks[1].ts = At(0, 9, 7, 0)
    /\ ticks[2].ts = At(0, 9, 14, 30)
    /\ ticks[3].ts = At(0, 9, 15, 0)
    /\ lastOp = "tick"
    /\ ret # {}

\* C5: the start times of any two candles the builder produces differ by a
\* whole multiple of timeframe_minutes, for every timeframe.
C5_FixedWidthBuckets ==
    \A c, d \in Produced :
        c.start_time >= d.start_time =>
            (c.start_time - d.start_time) % (timeframe_minutes * 60) = 0

\* C6: a tick whose bucket is strictly earlier than the in-progress bucket
\* returns no candle and leaves the five in-progress fields unchanged.
C6_EarlierTickDropped ==
    [][ ( /\ lastOp' = "tick"
          /\ Len(ticks') = Len(ticks) + 1
          /\ builder.current_start_time # None
          /\ Bucket(ticks'[Len(ticks')]) < builder.current_start_time )
        => ( /\ builder' = builder
             /\ ret' = {}
             /\ emitted' = emitted ) ]_vars

\* the last tick was of an earlier bucket and of a price outside the candle
C6_Witness ==
    /\ lastOp = "tick"
    /\ Len(ticks) >= 2
    /\ builder.current_start_time # None
    /\ Bucket(ticks[Len(ticks)]) < builder.current_start_time
    /\ ticks[Len(ticks)].price > builder.current_high

RECURSIVE Replay(_, _)
\* the builder after the ticks s[1..n], with no get_current_candle in between
Replay(s, n) ==
    IF n = 0 THEN NewBuilder
    ELSE update_with_tick(Replay(s, n - 1), s[n].price, s[n].ts, timeframe_minutes).b

\* C7: get_current_candle leaves the builder unchanged; consecutive calls
\* return equal candles, None before the first tick; and the builder is always
\* the one the ticks alone produce, whatever get_current_candle calls were made.
C7_PeekIsPure ==
    [][ /\ lastOp' = "peek" => builder' = builder
        /\ (lastOp' = "peek" /\ lastOp = "peek") => ret' = ret
        /\ (lastOp' = "peek" /\ ticks = <<>>) => ret' = {}
        /\ builder' = Replay(ticks', Len(ticks')) ]_vars

C7_Witness ==
    /\ lastOp = "peek"
    /\ ret # {}
    /\ transitions >= 1

----------------------------------------------------------------------------
(* Properties of the backtest part                                         *)

\* the frame of the run in progress (or of the last run)
Ind == calculate_indicators(df, params)

\* RSI values on both sides of, and on, the two entry thresholds
RsiSamples ==
    {NaN} \cup {[num |-> n, den |-> 1] : n \in {0, 39, 40, 41, 59, 60, 61, 100}}

SampleRow(rsi) == [Close |-> 1, RSI |-> rsi, EMA_Trend |-> Zero]

\* bar i crosses an entry threshold: RSI of bars i-1 and i defined, and
\* RSI[i-1] <= 40 < RSI[i] or RSI[i-1] >= 60 > RSI[i]
EntrySignal(i) ==
    /\ i >= 2
    /\ i <= Len(df)
    /\ ~IsNa(Ind.RSI[i - 1])
    /\ ~IsNa(Ind.RSI[i])
    /\ \/ Ind.RSI[i - 1].num <= 40 * Ind.RSI[i - 1].den /\ Ind.RSI[i].num > 40 * Ind.RSI[i].den
       \/ Ind.RSI[i - 1].num >= 60 * Ind.RSI[i - 1].den /\ Ind.RSI[i].num < 60 * Ind.RSI[i].den

\* C8: at most one position is open at every point of run: every position
\* opened so far is either the open one or was closed into a trade, none was
\* replaced by a second entry; and check_buy_signal and check_sell_signal are
\* false while a position is open, whatever the RSI values.
C8_PositionExclusive ==
    /\ Cardinality(engine.position) <= 1
    /\ opened = Len(engine.trades) + Cardinality(engine.position)
    /\ engine.position # {} =>
          \A r \in RsiSamples :
              \A prev \in {{}} \cup {{SampleRow(q)} : q \in RsiSamples} :
                  /\ ~check_buy_signal(engine, SampleRow(r), prev)
                  /\ ~check_sell_signal(engine, SampleRow(r), prev)

\* a position was kept over a bar that crossed an entry threshold
C8_Witness ==
    /\ pc = "loop"
    /\ idx >= 3
    /\ EntrySignal(idx - 1)
    /\ \E pos \in engine.position : pos.entry_time < idx - 1
    /\ opened = 1
    /\ engine.trades = <<>>

\* C9: on a bar where a position is closed by an exit condition no new
\* position is opened: no entry_time equals the exit_time of the trade
\* recorded just before it.
C9_NoSameBarReentry ==
    /\ \A k \in 1..(Len(engine.trades) - 1) :
          engine.trades[k + 1].entry_time # engine.trades[k].exit_time
    /\ \A pos \in engine.position :
          engine.trades # <<>> =>
              pos.entry_time # engine.trades[Len(engine.trades)].exit_time

\* C9 (amended): the entry check also runs on a bar whose exit check closed
\* the position: a new position is opened on that bar exactly when the bar
\* crosses an entry threshold, so a trade's entry_time can equal, and is
\* never earlier than, the exit_time of the trade recorded just before it.
C9_ReentryOnExitBar ==
    [][ /\ ( /\ pc = "loop" /\ pc' = "loop"
             /\ Len(engine'.trades) = Len(engine.trades) + 1 )
           => /\ engine'.trades[Len(engine'.trades)].exit_time = idx
              /\ (engine'.position # {}) <=> EntrySignal(idx)
              /\ \A pos \in engine'.position : pos.entry_time = idx
        /\ \A k \in 1..(Len(engine'.trades) - 1) :
              engine'.trades[k + 1].entry_time >= engine'.trades[k].exit_time
        /\ \A pos \in engine'.position :
              engine'.trades # <<>> =>
                  pos.entry_time >= engine'.trades[Len(engine'.trades)].exit_time
      ]_vars

\* a position was opened on the bar on which the previous one was closed
C9_Witness ==
    /\ pc = "loop"
    /\ engine.trades # <<>>
    /\ engine.trades[Len(engine.trades)].reason # "END_OF_BACKTEST"
    /\ \E pos \in engine.position :
          pos.entry_time = engine.trades[Len(engine.trades)].exit_time

\* C10: when run returns no position is open; a position open after the
\* last bar is closed at the last bar's close and time with reason
\* END_OF_BACKTEST; every position opened has exactly one recorded trade.
C10_ClosedAtEnd ==
    [][ /\ pc' = "idle" =>
              /\ engine'.position = {}
              /\ opened' = Len(engine'.trades)
        /\ (pc = "loop" /\ pc' = "idle") =>
              /\ \A r \in result' : r.trades = engine'.trades
              /\ engine.position = {} => engine'.trades = engine.trades
              /\ \A pos \in engine.position :
                    /\ Len(engine'.trades) = Len(engine.trades) + 1
                    /\ \A k \in 1..Len(engine.trades) :
                          engine'.trades[k] = engine.trades[k]
                    /\ LET t == engine'.trades[Len(engine'.trades)] IN
                       /\ t.reason = "END_OF_BACKTEST"
                       /\ t.exit_price = df[Len(df)]
                       /\ t.exit_time = Len(df)
                       /\ t.entry_time = pos.entry_time
                       /\ t.entry_price = pos.entry_price
                       /\ t.direction = pos.direction
      ]_vars

\* a run returned two trades, the second one closed at the end of the bars
C10_Witness ==
    /\ pc = "idle"
    /\ \E r \in result :
          /\ Len(r.trades) = 2
          /\ r.trades[1].reason # "END_OF_BACKTEST"
          /\ r.trades[2].reason = "END_OF_BACKTEST"
          /\ r.trades[2].entry_time < r.trades[2].exit_time

\* RSI of bars i-1 and i defined and RSI[i-1] <= 40 < RSI[i]
CrossUp(i) ==
    /\ i >= 2
    /\ i <= Len(df)
    /\ ~IsNa(Ind.RSI[i - 1])
    /\ ~IsNa(Ind.RSI[i])
    /\ Ind.RSI[i - 1].num <= 40 * Ind.RSI[i - 1].den
    /\ Ind.RSI[i].num > 40 * Ind.RSI[i].den

\* RSI of bars i-1 and i defined and RSI[i-1] >= 60 > RSI[i]
CrossDown(i) ==
    /\ i >= 2
    /\ i <= Len(df)
    /\ ~IsNa(Ind.RSI[i - 1])
    /\ ~IsNa(Ind.RSI[i])
    /\ Ind.RSI[i - 1].num >= 60 * Ind.RSI[i - 1].den
    /\ Ind.RSI[i].num < 60 * Ind.RSI[i].den

\* C11: a position is opened at bar i exactly when no position is open at the
\* entry check and the RSI of bars i-1 and i is defined and crosses up through
\* 40 (LONG, checked first) or else down through 60 (SHORT); the new position
\* has entry_price = highest_price = lowest_price = close of bar i and
\* entry_time = time of bar i.
C11_EntryRule ==
    [][ /\ (pc = "loop" /\ pc' = "loop") =>
            LET flat == \/ engine.position = {}
                        \/ Len(engine'.trades) = Len(engine.trades) + 1
                openedNow == \E pos \in engine'.position : pos.entry_time = idx
            IN /\ openedNow <=> (flat /\ (CrossUp(idx) \/ CrossDown(idx)))
               /\ openedNow =>
                     \A pos \in engine'.position :
                        /\ pos.direction = IF CrossUp(idx) THEN "LONG" ELSE "SHORT"
                        /\ pos.entry_price = df[idx]
                        /\ pos.highest_price = df[idx]
                        /\ pos.lowest_price = df[idx]
                        /\ pos.entry_time = idx
        /\ (pc = "loop" /\ pc' = "loop" /\ idx = 1) => \A r, q \in RsiSamples :
              /\ check_buy_signal(NewEngine(params), SampleRow(r), {SampleRow(q)})
                    <=> ( /\ ~IsNa(r) /\ ~IsNa(q)
                          /\ q.num <= 40 * q.den /\ r.num > 40 * r.den )
              /\ check_sell_signal(NewEngine(params), SampleRow(r), {SampleRow(q)})
                    <=> ( /\ ~IsNa(r) /\ ~IsNa(q)
                          /\ q.num >= 60 * q.den /\ r.num < 60 * r.den )
      ]_vars

\* a SHORT was opened on the bar just processed, with no position open before
C11_Witness ==
    /\ pc = "loop"
    /\ idx >= 3
    /\ engine.trades = <<>>
    /\ CrossDown(idx - 1)
    /\ \E pos \in engine.position :
          /\ pos.direction = "SHORT"
          /\ pos.entry_time = idx - 1
          /\ pos.entry_price = df[idx - 1]

\* the exit reason the fixed order TP, TRAIL, EMA_EXIT gives for an open
\* position, the running extreme being updated with the close first
ExpectedExit(pos, close, ema) ==
    IF pos.direction = "LONG"
    THEN IF close >= pos.entry_price + params.tp_points THEN "TP"
         ELSE IF close <= Max(pos.highest_price, close) - params.trail_offset THEN "TRAIL"
         ELSE IF close * ema.den < ema.num THEN "EMA_EXIT"
         ELSE NoExit
    ELSE IF close <= pos.entry_price - params.tp_points THEN "TP"
         ELSE IF close >= Min(pos.lowest_price, close) + params.trail_offset THEN "TRAIL"
         ELSE IF close * ema.den > ema.num THEN "EMA_EXIT"
         ELSE NoExit

\* C12: for an open position and a defined trend EMA the exit check first
\* updates the running extreme with the bar's close (highest_price for LONG,
\* lowest_price for SHORT) and then takes the first matching reason in the
\* order TP, TRAIL, EMA_EXIT, and no exit when none matches.
C12_ExitOrder ==
    [][ (pc = "loop" /\ pc' = "loop" /\ engine.position # {}) =>
            LET pos == The(engine.position)
                close == df[idx]
                x == ExpectedExit(pos, close, Ind.EMA_Trend[idx])
            IN IF x = NoExit
               THEN /\ engine'.trades = engine.trades
                    /\ engine'.position =
                          {IF pos.direction = "LONG"
                           THEN [pos EXCEPT !.highest_price = Max(pos.highest_price, close)]
                           ELSE [pos EXCEPT !.lowest_price = Min(pos.lowest_price, close)]}
               ELSE /\ Len(engine'.trades) = Len(engine.trades) + 1
                    /\ engine'.trades[Len(engine'.trades)].reason = x
                    /\ engine'.trades[Len(engine'.trades)].exit_time = idx
                    /\ engine'.trades[Len(engine'.trades)].exit_price = close
      ]_vars

\* a LONG was closed by TRAIL on a bar whose close was also below the trend EMA
C12_Witness ==
    /\ pc = "loop"
    /\ \E k \in 1..Len(engine.trades) :
          LET t == engine.trades[k] IN
          /\ t.direction = "LONG"
          /\ t.reason = "TRAIL"
          /\ t.exit_price * Ind.EMA_Trend[t.exit_time].den < Ind.EMA_Trend[t.exit_time].num

\* C13: every recorded trade has pnl_points = exit_price - entry_price when
\* LONG and entry_price - exit_price when SHORT, pnl_money = pnl_points *
\* lot_size, entry_price the close of its entry bar and exit_price the close
\* of its exit bar.
C13_TradePnl ==
    df # <<>> =>
        \A k \in 1..Len(engine.trades) :
            LET t == engine.trades[k] IN
            /\ t.direction \in {"LONG", "SHORT"}
            /\ t.entry_price = df[t.entry_time]
            /\ t.exit_price = df[t.exit_time]
            /\ t.direction = "LONG" => t.pnl_points = t.exit_price - t.entry_price
            /\ t.direction = "SHORT" => t.pnl_points = t.entry_price - t.exit_price
            /\ t.pnl_money = t.pnl_points * params.lot_size

\* a losing LONG and a winning SHORT were recorded
C13_Witness ==
    /\ df # <<>>
    /\ \E k \in 1..Len(engine.trades) :
          engine.trades[k].direction = "LONG" /\ engine.trades[k].pnl_points < 0
    /\ \E k \in 1..Len(engine.trades) :
          engine.trades[k].direction = "SHORT" /\ engine.trades[k].pnl_points > 0

RECURSIVE SumMoneyIn(_, _)
\* the sum of pnl_money of the trades with index in ks
SumMoneyIn(trades, ks) ==
    IF ks = {} THEN 0
    ELSE LET k == CHOOSE j \in ks : TRUE
         IN trades[k].pnl_money + SumMoneyIn(trades, ks \ {k})

RECURSIVE SumPointsIn(_, _)
SumPointsIn(trades, ks) ==
    IF ks = {} THEN 0
    ELSE LET k == CHOOSE j \in ks : TRUE
         IN trades[k].pnl_points + SumPointsIn(trades, ks \ {k})

\* the trades closed by the loop up to the bar of time tm
ClosedByBar(trades, tm) ==
    {k \in 1..Len(trades) :
        trades[k].exit_time <= tm /\ trades[k].reason # "END_OF_BACKTEST"}

\* C14: current_equity is initial_equity plus the pnl_money of the trades
\* recorded so far; the equity of every curve point is initial_equity plus
\* the pnl_money of the trades closed up to its bar, so two consecutive points
\* differ only if a trade closed on the later bar; the summary's net_pnl_money
\* and net_pnl_points are the sums of the trades' pnl_money and pnl_points.
C14_EquityAccounting ==
    /\ engine.current_equity =
          params.initial_equity + SumMoneyIn(engine.trades, 1..Len(engine.trades))
    /\ \A k \in 1..Len(engine.equity_curve) :
          engine.equity_curve[k].equity =
              params.initial_equity
                + SumMoneyIn(engine.trades,
                             ClosedByBar(engine.trades,
                                         IF k = 1 THEN 0 ELSE engine.equity_curve[k].time))
    /\ \A k \in 2..Len(engine.equity_curve) :
          engine.equity_curve[k].equity # engine.equity_curve[k - 1].equity =>
              \E j \in 1..Len(engine.trades) :
                  /\ engine.trades[j].exit_time = engine.equity_curve[k].time
                  /\ engine.trades[j].reason # "END_OF_BACKTEST"
    /\ \A r \in result :
          /\ r.summary.net_pnl_money = SumMoneyIn(r.trades, 1..Len(r.trades))
          /\ r.summary.net_pnl_points = SumPointsIn(r.trades, 1..Len(r.trades))

\* a run returned with two trades of non-zero P&L, one closed inside the loop
C14_Witness ==
    /\ pc = "idle"
    /\ \E r \in result :
          /\ Len(r.trades) >= 2
          /\ \A k \in 1..Len(r.trades) : r.trades[k].pnl_money # 0
          /\ r.summary.net_pnl_money # 0
          /\ \E k \in 2..Len(r.equity_curve) :
                r.equity_curve[k].equity # r.equity_curve[k - 1].equity

\* C15: a run over n >= 1 bars returns an equity curve of n + 1 points: the
\* seed point at the first bar's time with initial_equity, then one point per
\* bar in bar order, whether or not a trade occurred on the bar.
C15_EquityCurveLength ==
    /\ pc = "loop" =>
          /\ Len(engine.equity_curve) = idx
          /\ engine.equity_curve[1] = EquityPoint(1, params.initial_equity)
          /\ \A k \in 1..(idx - 1) : engine.equity_curve[k + 1].time = k
    /\ (pc = "idle" /\ df # <<>>) =>
          \A r \in result :
              /\ Len(r.equity_curve) = Len(df) + 1
              /\ r.equity_curve[1] = EquityPoint(1, params.initial_equity)
              /\ \A k \in 1..Len(df) : r.equity_curve[k + 1].time = k

\* a run over three bars with no trade returned four points
C15_Witness ==
    /\ pc = "idle"
    /\ Len(df) = 3
    /\ \E r \in result :
          /\ r.trades = <<>>
          /\ Len(r.equity_curve) = 4

\* C16: the first rsi_period outputs of _calculate_rsi are undefined (for
\* period 14, outputs 1 to 14) and later outputs can be defined.
C16_RsiWarmup ==
    \A i \in 1..Len(df) :
        i <= params.rsi_period => IsNa(Ind.RSI[i])

\* C17: every output of _calculate_rsi after the warm-up is a defined real
\* number in [0, 100].
C17_RsiDefinedInRange ==
    \A i \in (params.rsi_period + 1)..Len(df) :
        /\ ~IsNa(Ind.RSI[i])
        /\ 0 <= Ind.RSI[i].num
        /\ Ind.RSI[i].num <= 100 * Ind.RSI[i].den

\* C18: no position is opened on a bar whose RSI, or whose previous bar's
\* RSI, is undefined (so never on the first bar), and the exit check of an
\* open position gives no exit and changes nothing for a row whose trend EMA
\* is undefined; an undefined value is never compared like a number.
C18_UndefinedNoSignal ==
    [][ /\ (pc = "loop" /\ pc' = "loop") =>
              ( (\E pos \in engine'.position : pos.entry_time = idx) =>
                    /\ idx >= 2
                    /\ ~IsNa(Ind.RSI[idx])
                    /\ ~IsNa(Ind.RSI[idx - 1]) )
        /\ (pc = "loop" /\ pc' = "loop" /\ engine.position # {}) =>
              \A c \in Closes :
                  LET x == check_exit_conditions(engine, params,
                              [Close |-> c, RSI |-> Ind.RSI[idx], EMA_Trend |-> NaN])
                  IN x.reason = NoExit /\ x.e = engine
      ]_vars

\* the bar just processed has an RSI above 40 after an undefined RSI, and no
\* position was opened
C18_Witness ==
    /\ pc = "loop"
    /\ idx >= 3
    /\ IsNa(Ind.RSI[idx - 2])
    /\ ~IsNa(Ind.RSI[idx - 1])
    /\ Ind.RSI[idx - 1].num > 40 * Ind.RSI[idx - 1].den
    /\ engine.position = {}
    /\ opened = 0

\* the equity immediately after the close of trade k (0: before any trade)
EquityAfter(trades, initial, k) == initial + SumMoneyIn(trades, 1..k)

EquitiesAfterCloses(trades, initial) ==
    {EquityAfter(trades, initial, k) : k \in 0..Len(trades)}

\* an engine whose equity path is 100000, 100000, 95000, 110000, 90000:
\* four long trades of one unit entered at 20000
DrawdownExampleParams == [lot_size |-> 1, initial_equity |-> 100000]

RECURSIVE DrawdownExampleEngine(_)
DrawdownExampleEngine(exits) ==
    IF exits = <<>>
    THEN [NewEngine(DrawdownExampleParams) EXCEPT
              !.equity_curve = <<EquityPoint(1, 100000)>>]
    ELSE LET n == Len(exits) IN
         _close_position(
             _open_position(DrawdownExampleEngine(SubSeq(exits, 1, n - 1)),
                            "LONG", 20000, n),
             DrawdownExampleParams, exits[n], n, "TP")

DrawdownExample == DrawdownExampleEngine(<<20000, 15000, 35000, 0>>)

\* an equity path 100000, 90000, 110000: the lowest equity before the highest
DrawdownTroughFirst == DrawdownExampleEngine(<<10000, 40000>>)

\* C19: highest_equity and lowest_equity are the greatest and the least of
\* initial_equity and the equities immediately after each trade close, in
\* whatever order they occur, and max_drawdown_pct is
\* |lowest - highest| / highest * 100; the equity path 100000, 100000, 95000,
\* 110000, 90000 gives 20000 / 110000 * 100, which is 18.18 to two decimals,
\* and so does the path 100000, 90000, 110000, whose low comes first.
C19_MaxDrawdown ==
    /\ df # <<>> =>
          LET es == EquitiesAfterCloses(engine.trades, params.initial_equity)
              high == CHOOSE h \in es : \A x \in es : x <= h
              low == CHOOSE l \in es : \A x \in es : l <= x
          IN /\ engine.highest_equity = high
             /\ engine.lowest_equity = low
             /\ \A r \in result :
                   /\ r.summary.max_drawdown_pct.den > 0
                   /\ r.summary.max_drawdown_pct.num * high =
                          (high - low) * 100 * r.summary.max_drawdown_pct.den
    /\ LET d == _calculate_max_drawdown(DrawdownExample)
       IN /\ DrawdownExample.current_equity = 90000
          /\ DrawdownExample.highest_equity = 110000
          /\ DrawdownExample.lowest_equity = 90000
          /\ d = [num |-> 20000 * 100, den |-> 110000]
          /\ (d.num * 100) \div d.den = 1818
    /\ DrawdownTroughFirst.current_equity = 110000
    /\ _calculate_max_drawdown(DrawdownTroughFirst) =
           [num |-> 20000 * 100, den |-> 110000]

\* a finished run whose lowest equity was reached before its highest one
C19_Witness ==
    \E r \in result :
        \E j, k \in 1..Len(r.trades) :
            /\ j < k
            /\ EquityAfter(r.trades, params.initial_equity, j) = engine.lowest_equity
            /\ EquityAfter(r.trades, params.initial_equity, k) = engine.highest_equity
            /\ engine.lowest_equity < engine.highest_equity

\* the number of the first n trades whose pnl_money has the given sign
RECURSIVE CountSign(_, _, _)
CountSign(trades, n, sign) ==
    IF n = 0 THEN 0
    ELSE CountSign(trades, n - 1, sign)
           + (IF sign * trades[n].pnl_money > 0 THEN 1 ELSE 0)

RECURSIVE CountZero(_, _)
CountZero(trades, n) ==
    IF n = 0 THEN 0
    ELSE CountZero(trades, n - 1) + (IF trades[n].pnl_money = 0 THEN 1 ELSE 0)

\* C20: the result's win_trades is the number of trades with pnl_money > 0,
\* loss_trades the number with pnl_money < 0, a zero-P&L trade is in neither
\* (so win_trades + loss_trades <= total_trades), and winrate is
\* win_trades / total_trades * 100, 0 without trades, always within [0, 100].
C20_WinLossCounts ==
    \A r \in result :
        LET s == r.summary
            n == Len(r.trades)
        IN /\ s.total_trades = n
           /\ s.win_trades = CountSign(r.trades, n, 1)
           /\ s.loss_trades = CountSign(r.trades, n, 0 - 1)
           /\ s.win_trades + s.loss_trades + CountZero(r.trades, n) = n
           /\ s.win_trades + s.loss_trades <= s.total_trades
           /\ s.winrate.den > 0
           /\ IF n = 0 THEN s.winrate = Zero
              ELSE s.winrate.num * n = s.win_trades * 100 * s.winrate.den
           /\ 0 <= s.winrate.num
           /\ s.winrate.num <= 100 * s.winrate.den

\* a result with a losing trade and a zero-P&L trade
C20_Witness ==
    \E r \in result :
        /\ \E k \in 1..Len(r.trades) : r.trades[k].pnl_money = 0
        /\ r.summary.loss_trades > 0
        /\ r.summary.win_trades + r.summary.loss_trades < r.summary.total_trades

\* C21: when the download gives None or an empty frame, or raises, run returns
\* (the engine is idle again) a result with no trades, an empty equity curve,
\* a summary whose counts and amounts are all 0 and no best or worst trade.
C21_EmptyResult ==
    /\ \A kind \in {"None", "empty", "raises"} :
          fetch_candles([kind |-> kind, bars |-> <<>>]) = <<>>
    /\ download = "no bars" =>
        /\ pc = "idle"
        /\ df = <<>>
        /\ \E r \in result :
              /\ result = {r}
              /\ r.trades = <<>>
              /\ r.equity_curve = <<>>
              /\ r.summary.total_trades = 0
              /\ r.summary.win_trades = 0
              /\ r.summary.loss_trades = 0
              /\ r.summary.winrate.num = 0
              /\ r.summary.net_pnl_money = 0
              /\ r.summary.net_pnl_points = 0
              /\ r.summary.max_drawdown_pct.num = 0
              /\ r.summary.best_trade = {}
              /\ r.summary.worst_trade = {}

\* a run without bars on an engine whose earlier run recorded trades
C21_Witness ==
    /\ download = "no bars"
    /\ result # {}
    /\ engine.trades # <<>>

\* C25: a run over bars begins by resetting trades, equity curve, current,
\* highest and lowest equity and position, whatever an earlier run left; the
\* result of every run is the result a new engine gives for the same bars (so
\* two runs over the same bars give equal results); and no list that was
\* handed out in a result is appended to by a later run.
C25_RunResets ==
    [][ /\ (pc = "idle" /\ pc' = "loop") =>
              /\ engine'.trades = <<>>
              /\ engine'.position = {}
              /\ engine'.current_equity = params.initial_equity
              /\ engine'.highest_equity = params.initial_equity
              /\ engine'.lowest_equity = params.initial_equity
              /\ engine'.equity_curve = <<EquityPoint(1, params.initial_equity)>>
        /\ (pc' = "idle" /\ result' # {}) => result' = {run(params, df')}
        /\ (engine'.trades # engine.trades
              \/ engine'.equity_curve # engine.equity_curve) =>
              (~lists_returned \/ ~lists_returned')
      ]_vars

\* a run that began on an engine holding the trades of an earlier run has
\* gone over all its bars and recorded a trade of its own
C25_Witness ==
    /\ rerun
    /\ pc = "loop"
    /\ idx > Len(df)
    /\ engine.trades # <<>>

\* C29: in the result of a run over at least one bar the equity of the last
\* equity-curve point is the final equity, initial_equity + net_pnl_money.
C29_LastPointIsFinalEquity ==
    \A r \in result :
        r.equity_curve # <<>> =>
            r.equity_curve[Len(r.equity_curve)].equity =
                params.initial_equity + r.summary.net_pnl_money

\* C30: the recorded trades are in chronological order and do not overlap:
\* entry_time <= exit_time, equal only for a trade closed by END_OF_BACKTEST;
\* no trade is entered before the exit of the one before it; and only the
\* last trade can have the reason END_OF_BACKTEST.
C30_TradesChronological ==
    /\ \A k \in 1..Len(engine.trades) :
          LET t == engine.trades[k] IN
          /\ t.entry_time <= t.exit_time
          /\ t.entry_time = t.exit_time => t.reason = "END_OF_BACKTEST"
          /\ k > 1 => engine.trades[k - 1].exit_time <= t.entry_time
          /\ t.reason = "END_OF_BACKTEST" => k = Len(engine.trades)
    /\ \A r \in result : df # <<>> => r.trades = engine.trades

\* a result of two trades, the second entered on the bar that closed the
\* first and closed by END_OF_BACKTEST
C30_Witness ==
    \E r \in result :
        /\ Len(r.trades) >= 2
        /\ r.trades[2].entry_time = r.trades[1].exit_time
        /\ r.trades[Len(r.trades)].reason = "END_OF_BACKTEST"

GenerateStep == Len(generated') = Len(generated) + 1

\* the tick of this step seals the in-progress candle of the feed's builder
Seals ==
    /\ builder.current_start_time # None
    /\ _compute_bucket_start(ToSeconds(feed'.current_time), timeframe_minutes)
           > builder.current_start_time

\* C22: when the registered callback raises, generate_tick still returns its
\* dict, with the closed candle; price, time, tick_count and the builder are
\* what they are when the callback returns normally; the callback is called
\* once for the candle; and this holds for every later tick as well.
C22_CallbackErrorContained ==
    [][ (GenerateStep /\ feed.on_candle_closed = "raises") =>
            \E price_change \in PriceChanges :
                LET normal == generate_tick(set_on_candle_closed(feed, "returns"),
                                            builder, price_change, timeframe_minutes)
                IN /\ tick_result' # {}
                   /\ tick_result' = normal.result
                   /\ feed' = set_on_candle_closed(normal.feed, "raises")
                   /\ builder' = normal.b
                   /\ Len(calls') = Len(calls) + Len(normal.called)
                   /\ Len(calls') <= Len(calls) + 1
                   /\ Seals => The(tick_result').closed_candle = {CurrentCandle(builder)}
      ]_vars

\* the callback raised for a sealed candle and a later tick was processed
C22_Witness ==
    /\ \E k \in 1..Len(calls) : calls[k].raised
    /\ tick_result # {}
    /\ The(tick_result).closed_candle = {}
    /\ feed.tick_count >= 3

\* candles sealed by n ticks at 1-second steps on a 15-minute builder, for a
\* feed constructed at now (in seconds)
SealedByTicks(now, n) ==
    Cardinality({k \in 2..n :
        _compute_bucket_start(now + k, 15) > _compute_bucket_start(now + k - 1, 15)})

\* C23: with a callback registered, the callback is called exactly once for
\* each candle a tick seals, with that candle, in sealing order, and not at
\* all on a tick that seals nothing, so the candles processed are the candles
\* closed; 2700 ticks of one second on a 15-minute feed seal at least 2 candles.
C23_CallbackPerSealedCandle ==
    [][ /\ GenerateStep =>
              IF Seals /\ feed.on_candle_closed # "None"
              THEN /\ Len(calls') = Len(calls) + 1
                   /\ calls'[Len(calls')].candle = CurrentCandle(builder)
                   /\ SubSeq(calls', 1, Len(calls)) = calls
              ELSE calls' = calls
        /\ ~GenerateStep => calls' = calls
        /\ Len(calls') = Len(sealed')
        /\ \A k \in 1..Len(calls') : calls'[k].candle = sealed'[k]
        /\ (generated = <<>> /\ GenerateStep /\ feed.on_candle_closed = "None") =>
              \A m \in 0..59 : SealedByTicks(At(0, 9, m, 0), 2700) >= 2
      ]_vars

\* two candles were sealed and the callback got them in sealing order
C23_Witness ==
    /\ Len(calls) = 2
    /\ calls[1].candle.start_time < calls[2].candle.start_time
    /\ sealed = <<calls[1].candle, calls[2].candle>>

\* the ticks generated since the last reset (or the construction)
SinceReset == (Len(generated) - feed.tick_count + 1)..Len(generated)

\* the builder holds the latest generated tick: it was not dropped
LatestTickKept ==
    feed.tick_count > 0 =>
        /\ builder.current_start_time =
               _compute_bucket_start(ToSeconds(feed.current_time), timeframe_minutes)
        /\ builder.current_close = feed.current_price

Answered == {i \in 1..MaxRequests : requests[i].kind = "POST" /\ requests[i].pc = "done"}

\* C26: a POST /api/backtest whose run produces zero trades (also with empty
\* historical data) is answered with a BacktestResult, not with an error.
C26_ZeroTradesAnswered ==
    \A i \in Answered :
        LET r == requests[i]
            res == run(EngineParams(The(r.effective)), r.bars)
        IN res.summary.total_trades = 0 =>
               /\ The(r.response).status = 200
               /\ The(r.response).body # {}

\* the row the handler of request i worked with: the first row it found, or
\* the row of defaults it created
StoredConfig(i) ==
    IF requests[i].seen = {} THEN StrategyConfig(0) ELSE The(requests[i].seen)

\* C27: each effective strategy parameter of a POST /api/backtest is the
\* request's value whenever the request gives the field, whatever the value,
\* and the stored StrategyConfig value only when the field is absent.
C27_OverridesWin ==
    \A i \in Answered :
        \A f \in Fields :
            The(requests[i].effective)[f] =
                IF requests[i].body[f] # {} THEN The(requests[i].body[f])
                ELSE StoredConfig(i)[f]

\* C28: starting from an empty table, the table never holds a second row, and
\* holds exactly one row once a request has been answered.
C28_SingleRow ==
    /\ Len(table) <= 1
    /\ (\E i \in 1..MaxRequests : requests[i].pc = "done") => Len(table) = 1

====
